---- MODULE Spec2Model ----
(***************************************************************************)
(* Link2Ink Studio: the App shell (capability gate, view router, keyboard  *)
(* shortcuts, persisted history stores) of src/App.tsx and the             *)
(* LoadingState progress engine of src/unnamed/part_000.                   *)
(*                                                                         *)
(* Encoding of JavaScript values                                           *)
(*   undefined id   -> 0            undefined url -> "undefined"           *)
(*   Date           -> [valid, ms]  (Invalid Date is [FALSE, 0])           *)
(*   JSON text      -> [kind, arr]  kind: absent | empty | corrupt |       *)
(*                                  scalar | array                        *)
(*   JSON element   -> [tag, id, url, date] tag: object | number | null    *)
(*   JSON date      -> [k, ms]      k: iso | null | absent | text          *)
(***************************************************************************)
EXTENDS Integers, Sequences, FiniteSets

VARIABLES
    currentView,     \* App.tsx:16
    showIntro,       \* App.tsx:17
    hasApiKey,       \* App.tsx:18
    checkingKey,     \* App.tsx:19
    repoHistory,     \* App.tsx:24
    articleHistory,  \* App.tsx:40
    storage,         \* localStorage, by key
    mounted,         \* the effects of the first render have run
    bridge,          \* window.aistudio.hasSelectedApiKey exists
    probe,           \* position of checkKey: idle | pending | resolved | rejected | absent
    unhandled,       \* errors that escaped every handler
    lastKey,         \* the last key-down event and what the handler did with it
    lastOp,          \* the last operation and its outcome
    added,           \* items appended since startup, per category, oldest first
    lsPhase,         \* LoadingState: none | rendered | mounted
    message,         \* part_000:457, the message prop, as its characters
    targetProgress,  \* part_000:464
    progress,        \* part_000:463, in units of 1/Resolution
    stageLog,        \* the messages LoadingState was rendered with, by index
    targetLog,       \* targetProgress after the effect of each of them
    logs,            \* part_000:462, oldest first
    animTimer,       \* the 30 ms interval of part_000:521 is set
    logTimer,        \* the 600 ms interval of part_000:536 is set
    now,             \* the wall clock, in seconds
    urlInput,        \* part_000:53
    loading,         \* part_000:59
    images,          \* part_000:60
    citations,       \* part_000:61
    error,           \* part_000:62
    loadingStage,    \* part_000:63, an index of StageTexts, 0 for ''
    requests         \* the calls of generateArticleInfographic in flight

appVars == <<currentView, showIntro, hasApiKey, checkingKey, repoHistory,
             articleHistory, storage, mounted, bridge, probe, unhandled,
             lastKey, lastOp, added>>

lsVars == <<lsPhase, message, targetProgress, progress, stageLog, targetLog,
            logs, animTimer, logTimer, now>>

toolVars == <<urlInput, loading, images, citations, error, loadingStage, requests>>

vars == <<appVars, lsVars, toolVars>>

\* ------------------------------------------------------------------ bounds

MaxHist == 3
MaxArticleHist == 1
MaxStages == 4
Resolution == 100
MaxClock == 2
DayLength == 2
SampleSteps == 4
MaxRequests == 2
MaxGenerated == 2
MaxStored == 2

\* --------------------------------------------------------------- constants

HOME == "HOME"
REPO_ANALYZER == "REPO_ANALYZER"
ARTICLE_INFOGRAPHIC == "ARTICLE_INFOGRAPHIC"
ViewMode == {HOME, REPO_ANALYZER, ARTICLE_INFOGRAPHIC}

RepoKey == "link2ink_repo_history"
ArticleKeyShared == RepoKey
ArticleKey == "link2ink_article_history"
StorageKeys == {RepoKey, ArticleKey}

Refs == {"r1", "r2", "r3"}
\* The clock values at which the items are created.
Times == {1}

\* ------------------------------------------------------------ dates, JSON

InvalidDate == [valid |-> FALSE, ms |-> 0]

\* Date.prototype.toJSON as JSON.stringify applies it: toISOString() of a valid
\* date, null of an Invalid Date.
DateToJSON(d) ==
    IF d.valid THEN [k |-> "iso", ms |-> d.ms] ELSE [k |-> "null", ms |-> 0]

\* new Date(item.date): an ISO string parses to its time value, null coerces
\* to 0, undefined and any other text give an Invalid Date.
NewDate(j) ==
    CASE j.k = "iso" -> [valid |-> TRUE, ms |-> j.ms]
      [] j.k = "null" -> [valid |-> TRUE, ms |-> 0]
      [] OTHER -> InvalidDate

\* JSON.stringify of one history item: undefined members are dropped, the
\* date goes through toJSON.
StringifyItem(it) ==
    [tag |-> "object", id |-> it.id, url |-> it.url, date |-> DateToJSON(it.date)]

RECURSIVE StringifyItems(_)
StringifyItems(list) ==
    IF list = <<>> THEN <<>>
    ELSE <<StringifyItem(Head(list))>> \o StringifyItems(Tail(list))

\* JSON.stringify(history)
Stringify(list) == [kind |-> "array", arr |-> StringifyItems(list)]

\* ({...item, date: new Date(item.date)}) of one parsed element that is not
\* null: a number spreads to no members and has no date.
Revive(e) ==
    [id |-> e.id, url |-> e.url, date |-> NewDate(e.date)]

Absent == [kind |-> "absent", arr |-> <<>>]
EmptyText == [kind |-> "empty", arr |-> <<>>]
CorruptText == [kind |-> "corrupt", arr |-> <<>>]
ScalarText == [kind |-> "scalar", arr |-> <<>>]
NumberElement ==
    [tag |-> "number", id |-> 0, url |-> "undefined", date |-> [k |-> "absent", ms |-> 0]]
NullElement ==
    [tag |-> "null", id |-> 0, url |-> "undefined", date |-> [k |-> "absent", ms |-> 0]]
ArrayOfNumber == [kind |-> "array", arr |-> <<NumberElement>>]
ArrayOfNull == [kind |-> "array", arr |-> <<NullElement>>]

\* What a storage key may hold when the page starts for the first time.
ForeignStored ==
    {Absent, EmptyText, CorruptText, ScalarText, ArrayOfNumber, ArrayOfNull}

RECURSIVE ReviveAll(_)
\* JSON.parse(saved).map(item => ({...item, date: new Date(item.date)}))
ReviveAll(arr) ==
    IF arr = <<>> THEN <<>>
    ELSE <<Revive(Head(arr))>> \o ReviveAll(Tail(arr))

\* The lazy initializer of a history state: getItem, JSON.parse, map; every
\* throw (getItem itself, a syntax error, .map of a non-array, .date of null)
\* is caught and the initializer returns [].
Load(saved, readOk) ==
    IF ~readOk THEN <<>>
    ELSE IF saved.kind \in {"absent", "empty"} THEN <<>>
    ELSE IF saved.kind \in {"corrupt", "scalar"} THEN <<>>
    ELSE IF \E i \in 1..Len(saved.arr) : saved.arr[i].tag = "null" THEN <<>>
    ELSE ReviveAll(saved.arr)

\* The stored texts on which the try block of the initializer throws:
\* JSON.parse of text that is no JSON, .map of a value that is no array,
\* item.date of a null element.
LoadThrows(saved) ==
    \/ saved.kind \in {"corrupt", "scalar"}
    \/ /\ saved.kind = "array"
       /\ \E i \in 1..Len(saved.arr) : saved.arr[i].tag = "null"

\* The persist effect: setItem(key, JSON.stringify(history)); a throw is
\* caught and logged, the stored value stays what it was.
Persist(old, list, writeOk) ==
    IF writeOk THEN Stringify(list) ELSE old

PersistErrorsUncaught(writeOk) == IF writeOk THEN {} ELSE {"persist"}

\* The errors a persist effect lets escape: none, the catch swallows them.
PersistErrors(writeOk) == {}

PrependAtEnd(item, prev) == prev \o <<item>>

PrependDeduplicating(item, prev) ==
    <<item>> \o SelectSeq(prev, LAMBDA e : e.url # item.url)

\* prev => [item, ...prev]
Prepend(item, prev) == <<item>> \o prev

\* The items the tools hand to onAddToHistory.
Items ==
    {[id |-> t, url |-> u, date |-> [valid |-> TRUE, ms |-> t]] : u \in Refs, t \in Times}

NoKey ==
    [alt |-> FALSE, ctrl |-> FALSE, meta |-> FALSE, shift |-> FALSE, key |-> "none",
     prevented |-> FALSE, sets |-> 0]

Op(name, cat, ok) == [op |-> name, cat |-> cat, ok |-> ok]

NothingAdded == [k \in StorageKeys |-> <<>>]

\* React unmounts the whole tree when an effect throws: App has no error
\* boundary. A rejected promise of an async function unmounts nothing.
Alive == "persist" \notin unhandled

\* clearInterval(interval): the interval is set no longer.
ClearIntervalLeaking(timer) == timer

ClearInterval(timer) == FALSE

NoError == "null"

\* LoadingState leaves the tree: its state is dropped and the cleanups of
\* its two interval effects run.
LoadingUnmount ==
    /\ lsPhase' = "none"
    /\ message' = <<>>
    /\ targetProgress' = 10
    /\ progress' = 0
    /\ stageLog' = <<>>
    /\ targetLog' = <<>>
    /\ logs' = <<>>
    /\ animTimer' = ClearInterval(animTimer)
    /\ logTimer' = ClearInterval(logTimer)
    /\ UNCHANGED now

OrphanedStillLive(rs) == rs

\* The requests of a tool instance that left the tree: still in flight,
\* their setters reach no component.
RECURSIVE Orphaned(_)
Orphaned(rs) ==
    IF rs = <<>> THEN <<>>
    ELSE <<[Head(rs) EXCEPT !.live = FALSE]>> \o Orphaned(Tail(rs))

\* ArticleToInfographic leaves the tree: its state is dropped, a later
\* instance starts from the useState initial values (part_000:53-63).
ToolUnmount ==
    /\ urlInput' = ""
    /\ loading' = FALSE
    /\ images' = <<>>
    /\ citations' = <<>>
    /\ error' = NoError
    /\ loadingStage' = <<>>
    /\ requests' = Orphaned(requests)

\* The render after currentView became `to`: the tool, and LoadingState
\* inside it, are rendered on the article view only (App.tsx:241).
ViewChange(to) ==
    IF currentView = ARTICLE_INFOGRAPHIC /\ to # ARTICLE_INFOGRAPHIC
    THEN ToolUnmount /\ LoadingUnmount
    ELSE UNCHANGED <<lsVars, toolVars>>

\* The useState initial values of ArticleToInfographic, no request made.
ToolInitial ==
    /\ urlInput = ""
    /\ loading = FALSE
    /\ images = <<>>
    /\ citations = <<>>
    /\ error = NoError
    /\ loadingStage = <<>>
    /\ requests = <<>>

\* ---------------------------------------------------------------- startup

\* The state after the first render of App: the useState initializers have
\* run (the two lazy ones read storage), no effect has.
Started(stored, readOk, hasBridge) ==
    /\ currentView = HOME
    /\ showIntro = TRUE
    /\ hasApiKey = FALSE
    /\ checkingKey = TRUE
    /\ repoHistory = Load(stored[RepoKey], readOk)
    /\ articleHistory = Load(stored[ArticleKey], readOk)
    /\ storage = stored
    /\ mounted = FALSE
    /\ bridge = hasBridge
    /\ probe = "idle"
    /\ unhandled = {}
    /\ lastKey = NoKey
    /\ lastOp = Op("start", "none", readOk)
    /\ added = NothingAdded
    /\ ToolInitial

FirstRenderAlways == TRUE

\* useEffect(..., []): the effect runs after the first render and after no
\* other.
FirstRender == ~mounted

AbsentProbeResultGranted == TRUE

\* setHasApiKey(false) of the branch without the bridge.
AbsentProbeResult == FALSE

\* The effects of the first render, in source order: checkKey is called (it
\* runs to its await, or to its end when the bridge is absent), the key-down
\* listener is registered, and both persist effects write their history.
Mount ==
    /\ FirstRender
    /\ mounted' = TRUE
    /\ IF bridge
       THEN /\ probe' = "pending"
            /\ UNCHANGED <<hasApiKey, checkingKey>>
       ELSE /\ probe' = "absent"
            /\ hasApiKey' = AbsentProbeResult
            /\ checkingKey' = FALSE
    /\ \E okRepo \in BOOLEAN, okArticle \in BOOLEAN :
          /\ storage' = [storage EXCEPT
                  ![RepoKey] = Persist(@, repoHistory, okRepo),
                  ![ArticleKey] = Persist(@, articleHistory, okArticle)]
          /\ unhandled' = unhandled \cup PersistErrors(okRepo) \cup PersistErrors(okArticle)
          /\ lastOp' = Op("mount", "none", okRepo /\ okArticle)
    /\ UNCHANGED <<currentView, showIntro, repoHistory, articleHistory, bridge,
                   lastKey, added>>
    /\ UNCHANGED <<lsVars, toolVars>>

\* ------------------------------------------------------------ SessionGate

GateChecking == checkingKey
GateLocked == ~checkingKey /\ ~hasApiKey
GateUnlocked == ~checkingKey /\ hasApiKey

\* await window.aistudio.hasSelectedApiKey() resolves: setHasApiKey(has),
\* setCheckingKey(false).
ProbeResolve ==
    /\ probe = "pending"
    /\ \E has \in BOOLEAN : hasApiKey' = has
    /\ checkingKey' = FALSE
    /\ probe' = "resolved"
    /\ lastOp' = Op("probeResolve", "none", TRUE)
    /\ UNCHANGED <<currentView, showIntro, repoHistory, articleHistory, storage,
                   mounted, bridge, unhandled, lastKey, added>>
    /\ UNCHANGED <<lsVars, toolVars>>

\* The awaited probe rejects: checkKey has no try/catch, so the rejection
\* leaves checkKey before setCheckingKey(false) and nothing awaits checkKey().
ProbeReject ==
    /\ probe = "pending"
    /\ probe' = "rejected"
    /\ unhandled' = unhandled \cup {"checkKey"}
    /\ lastOp' = Op("probeReject", "none", FALSE)
    /\ UNCHANGED <<currentView, showIntro, hasApiKey, checkingKey, repoHistory,
                   articleHistory, storage, mounted, bridge, lastKey, added>>
    /\ UNCHANGED <<lsVars, toolVars>>

\* ApiKeyModal, rendered while !hasApiKey, calls onKeySelected.
KeySelected ==
    /\ ~checkingKey
    /\ ~hasApiKey
    /\ hasApiKey' = TRUE
    /\ lastOp' = Op("keySelected", "none", TRUE)
    /\ UNCHANGED <<currentView, showIntro, checkingKey, repoHistory, articleHistory,
                   storage, mounted, bridge, probe, unhandled, lastKey, added>>
    /\ UNCHANGED <<lsVars, toolVars>>

\* Declared in App and handed to no child.
onReauthRequested ==
    /\ ~checkingKey
    /\ hasApiKey' = FALSE
    /\ lastOp' = Op("reauth", "none", TRUE)
    /\ UNCHANGED <<currentView, showIntro, checkingKey, repoHistory, articleHistory,
                   storage, mounted, bridge, probe, unhandled, lastKey, added>>
    /\ UNCHANGED <<lsVars, toolVars>>

\* IntroAnimation, rendered while showIntro, calls onComplete.
handleIntroComplete ==
    /\ ~checkingKey
    /\ showIntro
    /\ showIntro' = FALSE
    /\ lastOp' = Op("introComplete", "none", TRUE)
    /\ UNCHANGED <<currentView, hasApiKey, checkingKey, repoHistory, articleHistory,
                   storage, mounted, bridge, probe, unhandled, lastKey, added>>
    /\ UNCHANGED <<lsVars, toolVars>>

\* ------------------------------------------------------------- ViewRouter

setCurrentView(mode, how) ==
    /\ currentView' = mode
    /\ lastOp' = Op(how, "none", TRUE)
    /\ UNCHANGED <<showIntro, hasApiKey, checkingKey, repoHistory, articleHistory,
                   storage, mounted, bridge, probe, unhandled, lastKey, added>>
    /\ ViewChange(mode)

\* The header logo button, rendered whenever the placeholder is not.
HeaderHomeClick ==
    /\ ~checkingKey
    /\ setCurrentView(HOME, "headerClick")

\* The three navigation tabs, rendered on every view but Home.
TabClick ==
    /\ ~checkingKey
    /\ currentView # HOME
    /\ \E mode \in ViewMode : setCurrentView(mode, "tabClick")

\* onNavigate of Home and of RepoAnalyzer, each rendered on its own view.
handleNavigate ==
    /\ ~checkingKey
    /\ currentView \in {HOME, REPO_ANALYZER}
    /\ \E mode \in ViewMode : setCurrentView(mode, "navigate")

Keys == {"1", "2", "3", "a"}

KeyEvents ==
    [alt : BOOLEAN, ctrl : BOOLEAN, meta : BOOLEAN, shift : BOOLEAN, key : Keys]

ShortcutsDisabledIntroOnly == showIntro

ShortcutsDisabledGateOnly == ~hasApiKey

ShortcutsDisabledNever == FALSE

\* if (!hasApiKey || showIntro) return;
ShortcutsDisabled == ~hasApiKey \/ showIntro

ModifiersMatchAltHeld(e) == e.alt

\* e.altKey && !e.ctrlKey && !e.metaKey && !e.shiftKey
ModifiersMatch(e) == e.alt /\ ~e.ctrl /\ ~e.meta /\ ~e.shift

\* switch (e.key): the view of a case, "none" where no case matches.
ShortcutTarget(key) ==
    CASE key = "1" -> HOME
      [] key = "2" -> REPO_ANALYZER
      [] key = "3" -> ARTICLE_INFOGRAPHIC
      [] OTHER -> "none"

Handled(e, prevented, sets) ==
    [alt |-> e.alt, ctrl |-> e.ctrl, meta |-> e.meta, shift |-> e.shift,
     key |-> e.key, prevented |-> prevented, sets |-> sets]

\* The window key-down listener, registered by the effect of the first
\* render and registered again whenever hasApiKey or showIntro changes.
handleKeyDown ==
    /\ mounted
    /\ \E e \in KeyEvents :
          IF ~ShortcutsDisabled /\ ModifiersMatch(e) /\ ShortcutTarget(e.key) # "none"
          THEN /\ currentView' = ShortcutTarget(e.key)
               /\ lastKey' = Handled(e, TRUE, 1)
          ELSE /\ currentView' = currentView
               /\ lastKey' = Handled(e, FALSE, 0)
    /\ lastOp' = Op("keydown", "none", TRUE)
    /\ UNCHANGED <<showIntro, hasApiKey, checkingKey, repoHistory, articleHistory,
                   storage, mounted, bridge, probe, unhandled, added>>
    /\ ViewChange(currentView')

\* ----------------------------------------------------------- HistoryStore

\* setRepoHistory(prev => [item, ...prev]), then the persist effect of the
\* render that follows.
AddRepo(items, cap) ==
    /\ mounted
    /\ Alive
    /\ Len(repoHistory) < cap
    /\ \E item \in items, writeOk \in BOOLEAN :
          /\ repoHistory' = Prepend(item, repoHistory)
          /\ storage' = [storage EXCEPT ![RepoKey] = Persist(@, repoHistory', writeOk)]
          /\ unhandled' = unhandled \cup PersistErrors(writeOk)
          /\ added' = [added EXCEPT ![RepoKey] = Append(@, item)]
          /\ lastOp' = Op("append", RepoKey, writeOk)
    /\ UNCHANGED <<currentView, showIntro, hasApiKey, checkingKey, articleHistory,
                   mounted, bridge, probe, lastKey>>
    /\ UNCHANGED <<lsVars, toolVars>>

handleAddRepoHistory == AddRepo(Items, MaxHist)

\* setArticleHistory(prev => [item, ...prev]), then its persist effect.
AddArticle(items, cap) ==
    /\ mounted
    /\ Alive
    /\ Len(articleHistory) < cap
    /\ \E item \in items, writeOk \in BOOLEAN :
          /\ articleHistory' = Prepend(item, articleHistory)
          /\ storage' = [storage EXCEPT ![ArticleKey] = Persist(@, articleHistory', writeOk)]
          /\ unhandled' = unhandled \cup PersistErrors(writeOk)
          /\ added' = [added EXCEPT ![ArticleKey] = Append(@, item)]
          /\ lastOp' = Op("append", ArticleKey, writeOk)
    /\ UNCHANGED <<currentView, showIntro, hasApiKey, checkingKey, repoHistory,
                   mounted, bridge, probe, lastKey>>
    /\ UNCHANGED <<lsVars, toolVars>>

handleAddArticleHistory == AddArticle(Items, MaxArticleHist)

\* The items of the two stores taken together: two sources, one clock value.
StoreItems == {it \in Items : it.url \in {"r1", "r2"}}

RepoAppend == AddRepo(StoreItems, MaxStored)

ArticleAppend == AddArticle(StoreItems, MaxStored)

\* The page is loaded again over the storage the last run left: the state
\* after the first render of the new run.
Restart ==
    /\ mounted
    /\ \E readOk \in BOOLEAN :
          /\ repoHistory' = Load(storage[RepoKey], readOk)
          /\ articleHistory' = Load(storage[ArticleKey], readOk)
          /\ lastOp' = Op("start", "none", readOk)
    /\ currentView' = HOME
    /\ showIntro' = TRUE
    /\ hasApiKey' = FALSE
    /\ checkingKey' = TRUE
    /\ mounted' = FALSE
    /\ probe' = "idle"
    /\ unhandled' = {}
    /\ lastKey' = NoKey
    /\ added' = NothingAdded
    /\ UNCHANGED <<storage, bridge>>
    /\ ToolUnmount
    /\ LoadingUnmount

\* ----------------------------------------------------------- LoadingState

UpperCase ==
    <<"A", "B", "C", "D", "E", "F", "G", "H", "I", "J", "K", "L", "M",
      "N", "O", "P", "Q", "R", "S", "T", "U", "V", "W", "X", "Y", "Z">>
LowerCase ==
    <<"a", "b", "c", "d", "e", "f", "g", "h", "i", "j", "k", "l", "m",
      "n", "o", "p", "q", "r", "s", "t", "u", "v", "w", "x", "y", "z">>

LowerChar(c) ==
    IF \E i \in 1..Len(UpperCase) : UpperCase[i] = c
    THEN LowerCase[CHOOSE i \in 1..Len(UpperCase) : UpperCase[i] = c]
    ELSE c

RECURSIVE LowerAll(_)
LowerAll(s) ==
    IF s = <<>> THEN <<>> ELSE <<LowerChar(Head(s))>> \o LowerAll(Tail(s))

toLowerCaseKeepingCase(s) == s

\* message.toLowerCase()
toLowerCase(s) == LowerAll(s)

\* String.prototype.includes
includes(s, sub) ==
    \E i \in 1..(Len(s) - Len(sub) + 1) : SubSeq(s, i, i + Len(sub) - 1) = sub

Kw_connect == <<"c", "o", "n", "n", "e", "c", "t">>
Kw_fetch == <<"f", "e", "t", "c", "h">>
Kw_read == <<"r", "e", "a", "d">>
Kw_init == <<"i", "n", "i", "t">>
Kw_analyz == <<"a", "n", "a", "l", "y", "z">>
Kw_research == <<"r", "e", "s", "e", "a", "r", "c", "h">>
Kw_pars == <<"p", "a", "r", "s">>
Kw_struct == <<"s", "t", "r", "u", "c", "t">>
Kw_generat == <<"g", "e", "n", "e", "r", "a", "t">>
Kw_render == <<"r", "e", "n", "d", "e", "r">>
Kw_design == <<"d", "e", "s", "i", "g", "n">>
Kw_transform == <<"t", "r", "a", "n", "s", "f", "o", "r", "m">>

NextTargetAnalysisFirst(msg, current) ==
    LET lowerMsg == toLowerCase(msg) IN
    IF \/ includes(lowerMsg, Kw_analyz) \/ includes(lowerMsg, Kw_research)
       \/ includes(lowerMsg, Kw_pars) \/ includes(lowerMsg, Kw_struct)
    THEN 70
    ELSE IF \/ includes(lowerMsg, Kw_connect) \/ includes(lowerMsg, Kw_fetch)
            \/ includes(lowerMsg, Kw_read) \/ includes(lowerMsg, Kw_init)
    THEN 35
    ELSE IF \/ includes(lowerMsg, Kw_generat) \/ includes(lowerMsg, Kw_render)
            \/ includes(lowerMsg, Kw_design) \/ includes(lowerMsg, Kw_transform)
    THEN 98
    ELSE current

\* The Smart Progress effect: targetProgress.current after it ran on msg.
NextTarget(msg, current) ==
    LET lowerMsg == toLowerCase(msg) IN
    IF \/ includes(lowerMsg, Kw_connect) \/ includes(lowerMsg, Kw_fetch)
       \/ includes(lowerMsg, Kw_read) \/ includes(lowerMsg, Kw_init)
    THEN 35
    ELSE IF \/ includes(lowerMsg, Kw_analyz) \/ includes(lowerMsg, Kw_research)
            \/ includes(lowerMsg, Kw_pars) \/ includes(lowerMsg, Kw_struct)
    THEN 70
    ELSE IF \/ includes(lowerMsg, Kw_generat) \/ includes(lowerMsg, Kw_render)
            \/ includes(lowerMsg, Kw_design) \/ includes(lowerMsg, Kw_transform)
    THEN 98
    ELSE current

Abs(x) == IF x < 0 THEN -x ELSE x

\* x / d rounded toward zero
Quot(x, d) == IF x < 0 THEN -((-x) \div d) ELSE x \div d

TickDoubling(prev, target) ==
    LET diff == target * Resolution - prev IN
    IF 2 * Abs(diff) < Resolution THEN prev ELSE prev + Quot(diff * 200, 100)

TickOvershooting(prev, target) ==
    LET diff == target * Resolution - prev IN
    IF 2 * Abs(diff) < Resolution THEN prev ELSE prev + Quot(diff * 105, 100)

TickNeverSettling(prev, target) ==
    LET diff == target * Resolution - prev IN prev + Quot(diff * 5, 100)

\* The updater of the 30 ms interval: prev, or prev + diff * 0.05. prev is a
\* double in the source and a multiple of 1/Resolution here.
Tick(prev, target) ==
    LET diff == target * Resolution - prev IN
    IF 2 * Abs(diff) < Resolution THEN prev ELSE prev + Quot(diff * 5, 100)

\* "INITIALIZING"
StageInitializing ==
    <<"I", "N", "I", "T", "I", "A", "L", "I", "Z", "I", "N", "G">>

\* "Fetching page"
StageFetching ==
    <<"F", "e", "t", "c", "h", "i", "n", "g", " ", "p", "a", "g", "e">>

\* "Analyzing structure"
StageAnalyzing ==
    <<"A", "n", "a", "l", "y", "z", "i", "n", "g", " ", "s", "t", "r", "u", "c", "t", "u", "r", "e">>

\* "Generating image"
StageGenerating ==
    <<"G", "e", "n", "e", "r", "a", "t", "i", "n", "g", " ", "i", "m", "a", "g", "e">>

\* "Uploading"
StageUploading ==
    <<"U", "p", "l", "o", "a", "d", "i", "n", "g">>

\* "Parsing fetched data"
StageParsingFetched ==
    <<"P", "a", "r", "s", "i", "n", "g", " ", "f", "e", "t", "c", "h", "e", "d", " ", "d", "a", "t", "a">>

\* "READING_CONTENT"
StageReadingContent ==
    <<"R", "E", "A", "D", "I", "N", "G", "_", "C", "O", "N", "T", "E", "N", "T">>

\* "Designing structure"
StageDesigning ==
    <<"D", "e", "s", "i", "g", "n", "i", "n", "g", " ", "s", "t", "r", "u", "c", "t", "u", "r", "e">>

\* 'INITIALIZING...'
StageInitializingDots ==
    <<"I", "N", "I", "T", "I", "A", "L", "I", "Z", "I", "N", "G", ".", ".", ".">>

\* The stage messages LoadingState is rendered with.
StageTexts ==
    <<StageInitializing, StageFetching, StageAnalyzing, StageGenerating,
      StageUploading, StageParsingFetched, StageReadingContent, StageDesigning,
      StageInitializingDots>>

\* NextTarget of each of StageTexts from target 0: the tier it sets, or 0
\* where it sets none.
StageTarget == [i \in 1..Len(StageTexts) |-> NextTarget(StageTexts[i], 0)]

\* NextTarget(StageTexts[i], current): no tier is 0, so the effect left the
\* target alone exactly where StageTarget[i] is 0.
TargetAfter(i, current) ==
    IF StageTarget[i] = 0 THEN current ELSE StageTarget[i]

\* The index in StageTexts of the stage handleGenerate sets.
FirstStage == 9

\* `> initializing ${config.logPrefix}_module...`, type article; it carries
\* no time.
NoStamp == -1
InitLog == [stamp |-> NoStamp, text |-> "> initializing web_module..."]

\* The line of config.tasks, type article, that the ticks draw here.
LogLines == {"Resolving DNS headers..."}

\* new Date().toISOString().split('T')[1].split('.')[0]: the time of the UTC
\* day, the date is dropped. A day has DayLength seconds here.
TimeOfDay(t) == t % DayLength

\* `[${timestamp}] ${nextLog} ... OK`
LogLine(t, line) == [stamp |-> TimeOfDay(t), text |-> line]

WindowSize == 5

SliceNothing(newLogs) == newLogs

SliceFirst(newLogs) ==
    IF Len(newLogs) > WindowSize THEN SubSeq(newLogs, 1, WindowSize) ELSE newLogs

\* if (newLogs.length > 5) return newLogs.slice(newLogs.length - 5)
Slice(newLogs) ==
    IF Len(newLogs) > WindowSize
    THEN SubSeq(newLogs, Len(newLogs) - WindowSize + 1, Len(newLogs))
    ELSE newLogs

\* Math.random(), in steps of 1/SampleSteps.
Samples == 0..(SampleSteps - 1)

\* Math.random() > 0.7
Skips(r) == r * 10 > 7 * SampleSteps

\* LoadingState is not rendered.
LoadingNone ==
    /\ lsPhase = "none"
    /\ message = <<>>
    /\ targetProgress = 10
    /\ progress = 0
    /\ stageLog = <<>>
    /\ targetLog = <<>>
    /\ logs = <<>>
    /\ animTimer = FALSE
    /\ logTimer = FALSE
    /\ now = 0

\* The first render of LoadingState with message StageTexts[i]: useState(0),
\* useRef(10); no effect has run.
LoadingRendered(i) ==
    /\ lsPhase = "rendered"
    /\ message = StageTexts[i]
    /\ targetProgress = 10
    /\ progress = 0
    /\ stageLog = <<i>>
    /\ targetLog = <<>>
    /\ logs = <<>>
    /\ animTimer = FALSE
    /\ logTimer = FALSE
    /\ now = 0

\* The effects of the first render: the Smart Progress effect runs on the
\* message, the animator interval is set, the Log Simulator effect sets the
\* first line and its interval.
LoadingMount ==
    /\ lsPhase = "rendered"
    /\ lsPhase' = "mounted"
    /\ targetProgress' = NextTarget(message, targetProgress)
    /\ targetLog' = Append(targetLog, targetProgress')
    /\ animTimer' = TRUE
    /\ logs' = <<InitLog>>
    /\ logTimer' = TRUE
    /\ UNCHANGED <<message, progress, stageLog, now>>
    /\ UNCHANGED <<appVars, toolVars>>

\* The stage callback of the request calls setLoadingStage (part_000:108),
\* the tool renders LoadingState with another message and the effect with
\* dependency [message] runs again.
StageMessage ==
    /\ lsPhase = "mounted"
    /\ Len(stageLog) < MaxStages
    /\ \E i \in 1..Len(StageTexts) :
          /\ StageTexts[i] # message
          /\ message' = StageTexts[i]
          /\ targetProgress' = TargetAfter(i, targetProgress)
          /\ stageLog' = Append(stageLog, i)
          /\ targetLog' = Append(targetLog, targetProgress')
          /\ loadingStage' = StageTexts[i]
    /\ UNCHANGED <<lsPhase, progress, logs, animTimer, logTimer, now>>
    /\ UNCHANGED <<urlInput, loading, images, citations, error, requests>>
    /\ UNCHANGED appVars

\* The same render without the record of it in stageLog and targetLog.
StageRender ==
    /\ lsPhase = "mounted"
    /\ \E i \in 1..Len(StageTexts) :
          /\ StageTexts[i] # message
          /\ message' = StageTexts[i]
          /\ targetProgress' = TargetAfter(i, targetProgress)
          /\ loadingStage' = StageTexts[i]
    /\ UNCHANGED <<lsPhase, progress, stageLog, targetLog, logs, animTimer,
                   logTimer, now>>
    /\ UNCHANGED <<urlInput, loading, images, citations, error, requests>>
    /\ UNCHANGED appVars

\* One firing of the 30 ms interval.
AnimatorTick ==
    /\ animTimer
    /\ progress' = Tick(progress, targetProgress)
    /\ UNCHANGED <<lsPhase, message, targetProgress, stageLog, targetLog, logs,
                   animTimer, logTimer, now>>
    /\ UNCHANGED <<appVars, toolVars>>

\* One firing of the 600 ms interval: the updater keeps prev for a sample
\* above 0.7 and appends a line of the pool, stamped with the time, for the
\* others.
LogTick ==
    /\ logTimer
    /\ \E r \in Samples, line \in LogLines, t \in now..MaxClock :
          /\ now' = t
          /\ logs' = IF Skips(r) THEN logs ELSE Slice(Append(logs, LogLine(t, line)))
    /\ UNCHANGED <<lsPhase, message, targetProgress, progress, stageLog,
                   targetLog, animTimer, logTimer>>
    /\ UNCHANGED <<appVars, toolVars>>

\* The Log Simulator effect runs again after a render: config.tasks in its
\* dependencies is an array literal of the component body, a new array on
\* every render. The cleanup clears the interval, the effect sets the first
\* line alone and a new interval; setLogs with a new array renders again.
LogEffectRerun ==
    /\ lsPhase = "mounted"
    /\ logs' = <<InitLog>>
    /\ logTimer' = TRUE
    /\ UNCHANGED <<lsPhase, message, targetProgress, progress, stageLog,
                   targetLog, animTimer, now>>
    /\ UNCHANGED <<appVars, toolVars>>

\* ---------------------------------------------------- ArticleToInfographic

\* The tool is in the tree: App renders it on the article view once the
\* placeholder is gone.
ToolShown == ~checkingKey /\ currentView = ARTICLE_INFOGRAPHIC

\* What the url input hands to onChange: the browser strips the white space
\* around the value of an input of type url.
TypedUrls == {"", "r1", "r2"}

Whitespace == {" "}

TrimNothing(u) == u

\* urlInput.trim()
Trim(u) == IF u \in Whitespace THEN "" ELSE u

ProvideUrl == "Please provide a valid URL."
NoImage == "Failed to generate infographic image. The URL might be inaccessible."
Unexpected == "An unexpected error occurred."

\* The messages of the errors generateArticleInfographic rejects with.
ServiceErrors == {"Quota exceeded", "API key not valid"}

\* err.message || "An unexpected error occurred."
ErrorText(m) == IF m = "" THEN Unexpected ELSE m

\* The artifacts and citations of a source: the service gives each source
\* its own, and a history item keeps those of its request.
Artifacts(url) == <<[of |-> url]>>
Citations(url) == <<[uri |-> url]>>

\* The results generateArticleInfographic resolves with: artifacts with
\* their citations, or no artifact.
ServiceResults(url) ==
    {[images |-> Artifacts(url), citations |-> Citations(url)],
     [images |-> <<>>, citations |-> <<>>]}

\* onChange of the url input.
setUrlInput ==
    /\ ToolShown
    /\ \E u \in TypedUrls : u # urlInput /\ urlInput' = u
    /\ lastOp' = Op("edit", "none", TRUE)
    /\ UNCHANGED <<loading, images, citations, error, loadingStage, requests>>
    /\ UNCHANGED <<currentView, showIntro, hasApiKey, checkingKey, repoHistory,
                   articleHistory, storage, mounted, bridge, probe, unhandled,
                   lastKey, added>>
    /\ UNCHANGED lsVars

\* loadFromHistory of a card of the history section, which is rendered
\* whether a request is in flight or not.
loadFromHistory ==
    /\ ToolShown
    /\ \E k \in 1..Len(articleHistory) :
          /\ urlInput' = articleHistory[k].url
          /\ images' = Artifacts(articleHistory[k].url)
          /\ citations' = Citations(articleHistory[k].url)
    /\ lastOp' = Op("recall", "none", TRUE)
    /\ UNCHANGED <<loading, error, loadingStage, requests>>
    /\ UNCHANGED <<currentView, showIntro, hasApiKey, checkingKey, repoHistory,
                   articleHistory, storage, mounted, bridge, probe, unhandled,
                   lastKey, added>>
    /\ UNCHANGED lsVars

\* LoadingState after the render that follows setLoading(true) and
\* setLoadingStage('INITIALIZING...'): mounted with its effects run when it
\* was not in the tree, rendered with the new message when it was.
LoadingShown ==
    IF lsPhase = "none"
    THEN /\ lsPhase' = "mounted"
         /\ message' = StageTexts[FirstStage]
         /\ targetProgress' = TargetAfter(FirstStage, 10)
         /\ progress' = 0
         /\ stageLog' = <<FirstStage>>
         /\ targetLog' = <<targetProgress'>>
         /\ logs' = <<InitLog>>
         /\ animTimer' = TRUE
         /\ logTimer' = TRUE
         /\ UNCHANGED now
    ELSE /\ message' = StageTexts[FirstStage]
         /\ targetProgress' = TargetAfter(FirstStage, targetProgress)
         /\ UNCHANGED <<lsPhase, progress, stageLog, targetLog, logs, animTimer,
                        logTimer, now>>

\* handleGenerate up to its await: the submit handler of the form.
handleGenerate ==
    /\ ToolShown
    /\ IF Trim(urlInput) = ""
       THEN /\ error' = ProvideUrl
            /\ lastOp' = Op("generate", "none", FALSE)
            /\ UNCHANGED <<loading, images, citations, loadingStage, requests>>
            /\ UNCHANGED lsVars
       ELSE /\ Len(requests) < MaxRequests
            /\ loading' = TRUE
            /\ error' = NoError
            /\ images' = <<>>
            /\ citations' = <<>>
            /\ loadingStage' = StageTexts[FirstStage]
            /\ requests' = Append(requests, [url |-> urlInput, live |-> TRUE])
            /\ lastOp' = Op("generate", "none", TRUE)
            /\ LoadingShown
    /\ UNCHANGED urlInput
    /\ UNCHANGED <<currentView, showIntro, hasApiKey, checkingKey, repoHistory,
                   articleHistory, storage, mounted, bridge, probe, unhandled,
                   lastKey, added>>

SubmitDisabledWhenEmpty == Trim(urlInput) = ""

\* disabled={loading || !urlInput.trim()}
SubmitDisabled == loading \/ Trim(urlInput) = ""

\* The submit button is activated, or Enter is pressed in the url input: a
\* form whose submit button is disabled is not submitted.
SubmitClick ==
    /\ ~SubmitDisabled
    /\ handleGenerate

\* requests without its i-th element
Without(rs, i) == SubSeq(rs, 1, i - 1) \o SubSeq(rs, i + 1, Len(rs))

\* finally { setLoading(false); setLoadingStage('') } of a request whose
\* instance is in the tree, and the render without LoadingState.
TaskEnds ==
    /\ loading' = FALSE
    /\ loadingStage' = <<>>
    /\ LoadingUnmount

SubmittedUrlOfField(r) == urlInput

\* urlInput as addToHistory(urlInput, ...) reads it after the await: the
\* constant of the render in which the submitted handleGenerate was made.
SubmittedUrl(r) == r.url

\* What Date.now() may read when an item is created: a value after the
\* creation of every item of the list, or, when the step before was the
\* completion that created the newest of them, the value it read, for two
\* completions can run in one millisecond.
NotBefore(list, times) ==
    {t \in times : \A k \in 1..Len(list) :
        \/ list[k].id < t
        \/ lastOp.op = "resolve" /\ list[k].id = t}

\* The awaited call resolves. With an artifact: setImages, setCitations and
\* addToHistory, which builds the item from the url of the request and the
\* clock and hands it to handleAddArticleHistory of App; the persist effect
\* follows. With none: the throw of line 119 is caught. The clock reads one
\* of `times`, the history holds at most `cap` items.
Resolves(times, cap) ==
    /\ mounted
    /\ Alive
    /\ \E i \in 1..Len(requests) :
       \E res \in ServiceResults(requests[i].url), writeOk \in BOOLEAN :
       \E t \in IF res.images # <<>> THEN NotBefore(articleHistory, times) ELSE times :
          LET r == requests[i]
              item == [id |-> t, url |-> SubmittedUrl(r),
                       date |-> [valid |-> TRUE, ms |-> t]]
          IN
          /\ requests' = Without(requests, i)
          /\ IF res.images # <<>>
             THEN /\ Len(articleHistory) < cap
                  /\ articleHistory' = Prepend(item, articleHistory)
                  /\ storage' = [storage EXCEPT
                          ![ArticleKey] = Persist(@, articleHistory', writeOk)]
                  /\ unhandled' = unhandled \cup PersistErrors(writeOk)
                  /\ added' = [added EXCEPT ![ArticleKey] = Append(@, item)]
                  /\ lastOp' = Op("resolve", ArticleKey, r.live)
             ELSE /\ writeOk
                  /\ lastOp' = Op("resolveEmpty", ArticleKey, r.live)
                  /\ UNCHANGED <<articleHistory, storage, unhandled, added>>
          /\ IF r.live
             THEN /\ IF res.images # <<>>
                     THEN /\ images' = res.images
                          /\ citations' = res.citations
                          /\ UNCHANGED error
                     ELSE /\ error' = ErrorText(NoImage)
                          /\ UNCHANGED <<images, citations>>
                  /\ TaskEnds
             ELSE /\ UNCHANGED <<loading, images, citations, error, loadingStage>>
                  /\ UNCHANGED lsVars
    /\ UNCHANGED urlInput
    /\ UNCHANGED <<currentView, showIntro, hasApiKey, checkingKey, repoHistory,
                   mounted, bridge, probe, lastKey>>

RequestResolves == Resolves(Times, MaxArticleHist)

\* The same completion with the clock free to stand or to advance between
\* two items.
GenerationCompletes == Resolves(1..MaxClock, MaxGenerated)

\* The awaited call rejects: catch sets the error, finally ends the task.
\* The setters of a request whose instance left the tree reach nothing.
RequestRejects ==
    /\ mounted
    /\ \E i \in 1..Len(requests), m \in ServiceErrors :
          LET r == requests[i] IN
          /\ requests' = Without(requests, i)
          /\ lastOp' = Op("reject", ArticleKey, r.live)
          /\ IF r.live
             THEN /\ error' = ErrorText(m)
                  /\ UNCHANGED <<images, citations>>
                  /\ TaskEnds
             ELSE /\ m = "Quota exceeded"
                  /\ UNCHANGED <<loading, images, citations, error, loadingStage>>
                  /\ UNCHANGED lsVars
    /\ UNCHANGED urlInput
    /\ UNCHANGED <<currentView, showIntro, hasApiKey, checkingKey, repoHistory,
                   articleHistory, storage, mounted, bridge, probe, unhandled,
                   lastKey, added>>

\* --------------------------------------------------------- specifications

Init ==
    /\ \E hasBridge \in BOOLEAN : Started([k \in StorageKeys |-> Absent], TRUE, hasBridge)
    /\ LoadingNone

Next ==
    \/ Mount
    \/ ProbeResolve
    \/ ProbeReject
    \/ KeySelected
    \/ handleIntroComplete
    \/ HeaderHomeClick
    \/ TabClick
    \/ handleNavigate
    \/ handleKeyDown

Spec == Init /\ [][Next]_vars

InitHistory ==
    /\ \E sr \in ForeignStored, readOk \in BOOLEAN :
          Started([k \in StorageKeys |-> IF k = RepoKey THEN sr ELSE Absent], readOk, TRUE)
    /\ LoadingNone

NextHistory ==
    \/ Mount
    \/ handleAddRepoHistory
    \/ Restart

SpecHistory == InitHistory /\ [][NextHistory]_vars

\* App as a tool shows it while a request is in flight: unlocked, intro over,
\* on the article view, both histories empty and stored.
AppShowingTool ==
    /\ currentView = ARTICLE_INFOGRAPHIC
    /\ showIntro = FALSE
    /\ hasApiKey = TRUE
    /\ checkingKey = FALSE
    /\ repoHistory = <<>>
    /\ articleHistory = <<>>
    /\ storage = [k \in StorageKeys |-> Stringify(<<>>)]
    /\ mounted = TRUE
    /\ bridge = TRUE
    /\ probe = "resolved"
    /\ unhandled = {}
    /\ lastKey = NoKey
    /\ lastOp = Op("generate", "none", TRUE)
    /\ added = NothingAdded
    /\ urlInput = "r1"
    /\ loading = TRUE
    /\ images = <<>>
    /\ citations = <<>>
    /\ error = NoError
    /\ requests = <<[url |-> "r1", live |-> TRUE]>>

InitStages ==
    /\ AppShowingTool
    /\ \E i \in 1..Len(StageTexts) : LoadingRendered(i) /\ loadingStage = StageTexts[i]

NextStages ==
    \/ LoadingMount
    \/ StageMessage

SpecStages == InitStages /\ [][NextStages]_vars

\* The displayed values the animator is started from, every quarter of a
\* percent from 0 to 100.
StartValues == {(k * Resolution) \div 4 : k \in 0..400}

Tiers == {10, 35, 70, 98}

InitAnimator ==
    /\ AppShowingTool
    /\ lsPhase = "mounted"
    /\ message = <<>>
    /\ loadingStage = <<>>
    /\ targetProgress \in Tiers
    /\ progress \in StartValues
    /\ stageLog = <<>>
    /\ targetLog = <<>>
    /\ logs = <<InitLog>>
    /\ animTimer = TRUE
    /\ logTimer = TRUE
    /\ now = 0

NextAnimator == AnimatorTick

SpecAnimator == InitAnimator /\ [][NextAnimator]_vars /\ WF_vars(AnimatorTick)

\* LoadingState as handleGenerate first renders it, then stage callbacks
\* and animator ticks in any order.
InitProgress ==
    /\ AppShowingTool
    /\ LoadingRendered(FirstStage)
    /\ loadingStage = StageTexts[FirstStage]

NextProgress ==
    \/ LoadingMount
    \/ StageRender
    \/ AnimatorTick

SpecProgress == InitProgress /\ [][NextProgress]_vars

\* LoadingState as handleGenerate first renders it, then log ticks, runs of
\* the Log Simulator effect and stage callbacks in any order.
InitLogs == InitProgress

NextLogs ==
    \/ LoadingMount
    \/ LogTick
    \/ LogEffectRerun
    \/ StageRender

SpecLogs == InitLogs /\ [][NextLogs]_vars

\* App unlocked, the intro over, on the article view with the tool as
\* first rendered; both histories empty and stored.
InitTool ==
    /\ currentView = ARTICLE_INFOGRAPHIC
    /\ showIntro = FALSE
    /\ hasApiKey = TRUE
    /\ checkingKey = FALSE
    /\ repoHistory = <<>>
    /\ articleHistory = <<>>
    /\ storage = [k \in StorageKeys |-> Stringify(<<>>)]
    /\ mounted = TRUE
    /\ bridge = TRUE
    /\ probe = "resolved"
    /\ unhandled = {}
    /\ lastKey = NoKey
    /\ lastOp = Op("tabClick", "none", TRUE)
    /\ added = NothingAdded
    /\ ToolInitial
    /\ LoadingNone

NextTool ==
    \/ setUrlInput
    \/ SubmitClick
    \/ StageRender
    \/ RequestResolves
    \/ RequestRejects
    \/ loadFromHistory
    \/ TabClick

SpecTool == InitTool /\ [][NextTool]_vars

\* The tool with no url, or white space alone, in urlInput, and submit
\* events that reach handleGenerate whatever the state of the button.
InitSubmit ==
    /\ currentView = ARTICLE_INFOGRAPHIC
    /\ showIntro = FALSE
    /\ hasApiKey = TRUE
    /\ checkingKey = FALSE
    /\ repoHistory = <<>>
    /\ articleHistory = <<>>
    /\ storage = [k \in StorageKeys |-> Stringify(<<>>)]
    /\ mounted = TRUE
    /\ bridge = TRUE
    /\ probe = "resolved"
    /\ unhandled = {}
    /\ lastKey = NoKey
    /\ lastOp = Op("tabClick", "none", TRUE)
    /\ added = NothingAdded
    /\ urlInput \in {""} \cup Whitespace
    /\ loading = FALSE
    /\ images = <<>>
    /\ citations = <<>>
    /\ error = NoError
    /\ loadingStage = <<>>
    /\ requests = <<>>
    /\ LoadingNone

NextSubmit ==
    \/ handleGenerate
    \/ setUrlInput
    \/ loadFromHistory
    \/ RequestResolves
    \/ RequestRejects

SpecSubmit == InitSubmit /\ [][NextSubmit]_vars

\* The tool with a url typed: tasks are started, end or are abandoned by
\* navigation while the two intervals of LoadingState fire.
InitTimers ==
    /\ currentView = ARTICLE_INFOGRAPHIC
    /\ showIntro = FALSE
    /\ hasApiKey = TRUE
    /\ checkingKey = FALSE
    /\ repoHistory = <<>>
    /\ articleHistory = <<>>
    /\ storage = [k \in StorageKeys |-> Stringify(<<>>)]
    /\ mounted = TRUE
    /\ bridge = TRUE
    /\ probe = "resolved"
    /\ unhandled = {}
    /\ lastKey = NoKey
    /\ lastOp = Op("edit", "none", TRUE)
    /\ added = NothingAdded
    /\ urlInput = "r1"
    /\ loading = FALSE
    /\ images = <<>>
    /\ citations = <<>>
    /\ error = NoError
    /\ loadingStage = <<>>
    /\ requests = <<>>
    /\ LoadingNone

NextTimers ==
    \/ SubmitClick
    \/ RequestResolves
    \/ RequestRejects
    \/ TabClick
    \/ AnimatorTick
    \/ LogTick
    \/ LogEffectRerun

SpecTimers == InitTimers /\ [][NextTimers]_vars

\* The tool from its first render: urls are typed, requests are submitted,
\* abandoned by navigation and completed, at clock values that stand or
\* advance.
InitGenerate == InitTool

NextGenerate ==
    \/ setUrlInput
    \/ SubmitClick
    \/ GenerationCompletes
    \/ RequestRejects
    \/ TabClick

SpecGenerate == InitGenerate /\ [][NextGenerate]_vars

\* What the keys hold when the two stores are started together.
StoredAtStart == {Absent, CorruptText}

\* Both stores from the first render: appends to either category, the page
\* loaded again.
InitStores ==
    /\ \E sr \in StoredAtStart, sa \in StoredAtStart, readOk \in BOOLEAN :
          Started([k \in StorageKeys |-> IF k = RepoKey THEN sr ELSE sa], readOk, TRUE)
    /\ LoadingNone

NextStores ==
    \/ Mount
    \/ RepoAppend
    \/ ArticleAppend
    \/ Restart

SpecStores == InitStores /\ [][NextStores]_vars

\* The tool from its first render with the url field edited, history items
\* recalled and requests submitted and completed, in any order.
InitInFlight == InitTool

NextInFlight ==
    \/ setUrlInput
    \/ loadFromHistory
    \/ SubmitClick
    \/ GenerationCompletes

SpecInFlight == InitInFlight /\ [][NextInFlight]_vars

\* ------------------------------------------------------------------ claims

\* C1: when the startup probe rejects, the gate leaves Checking and ends
\* Locked, and the rejection is handled inside the gate.
C1_ProbeFailureEndsLocked ==
    probe = "rejected" => (GateLocked /\ "checkKey" \notin unhandled)

\* C2: the active view never changes while the gate is Checking or Locked,
\* whichever navigation path is taken.
C2_NoViewChangeUnlessUnlocked ==
    [][~GateUnlocked => currentView' = currentView]_vars

IsShortcutEvent(e) ==
    e.alt /\ ~e.ctrl /\ ~e.meta /\ ~e.shift /\ e.key \in {"1", "2", "3"}

ShortcutTable(key) ==
    IF key = "1" THEN HOME
    ELSE IF key = "2" THEN REPO_ANALYZER
    ELSE ARTICLE_INFOGRAPHIC

\* C3: a key-down of Alt+1, Alt+2 or Alt+3 while the gate is Unlocked and the
\* intro is over sets the view once, to the view of the table, and
\* suppresses the default; the same event while Locked leaves the view.
C3_ShortcutDispatch ==
    [][(lastOp'.op = "keydown" /\ IsShortcutEvent(lastKey')) =>
          /\ (GateUnlocked /\ ~showIntro) =>
                /\ currentView' = ShortcutTable(lastKey'.key)
                /\ lastKey'.sets = 1
                /\ lastKey'.prevented
          /\ GateLocked =>
                /\ currentView' = currentView
                /\ lastKey'.sets = 0]_vars

C3_Witness ==
    /\ lastOp.op = "keydown"
    /\ IsShortcutEvent(lastKey)
    /\ lastKey.key = "3"
    /\ lastKey.prevented
    /\ GateUnlocked
    /\ currentView = ARTICLE_INFOGRAPHIC

RECURSIVE Reverse(_)
Reverse(s) == IF s = <<>> THEN <<>> ELSE Reverse(Tail(s)) \o <<Head(s)>>

Urls(list) == [i \in 1..Len(list) |-> list[i].url]

\* C4: an append puts the item at the head and leaves the former list, in
\* content and order, as the tail; no other operation of a run changes the
\* list; the items appended since startup stand first, newest first.
C4_AppendPrepends ==
    /\ [][/\ lastOp'.op = "append" =>
                /\ Head(repoHistory') = added'[RepoKey][Len(added'[RepoKey])]
                /\ Tail(repoHistory') = repoHistory
          /\ lastOp'.op \notin {"append", "start"} => repoHistory' = repoHistory]_vars
    /\ [](/\ Len(added[RepoKey]) <= Len(repoHistory)
          /\ SubSeq(repoHistory, 1, Len(added[RepoKey])) = Reverse(added[RepoKey]))

C4_Witness ==
    /\ Len(added[RepoKey]) = 3
    /\ Urls(added[RepoKey]) = <<"r1", "r2", "r3">>
    /\ Urls(repoHistory) = <<"r3", "r2", "r1">>

\* C5: an append whose persist succeeded, followed by a fresh start that
\* reads the same key, gives back the list as it stood after the append: the
\* item at the head with its timestamp, the former entries after it.
C5_AppendPersistLoadRoundTrip ==
    [][(/\ lastOp.op = "append" /\ lastOp.ok
        /\ lastOp'.op = "start" /\ lastOp'.ok) =>
          repoHistory' = repoHistory]_vars

\* C6: an append whose persist fails still leaves the item at the head and
\* the former list after it, raises nothing, leaves the stored value alone,
\* and the next append is still possible.
C6_FailedPersistKeepsAppend ==
    /\ [][(lastOp'.op = "append" /\ ~lastOp'.ok) =>
             /\ Head(repoHistory') = added'[RepoKey][Len(added'[RepoKey])]
             /\ Tail(repoHistory') = repoHistory
             /\ unhandled' = unhandled
             /\ storage' = storage]_vars
    /\ []((lastOp.op = "append" /\ ~lastOp.ok /\ Len(repoHistory) < MaxHist) =>
             ENABLED handleAddRepoHistory)

C6_Witness ==
    /\ lastOp.op = "append"
    /\ ~lastOp.ok
    /\ Len(added[RepoKey]) = 2
    /\ storage[RepoKey] = Stringify(<<>>)
    /\ Len(repoHistory) = 2

IsArrayOfRecords(saved) ==
    /\ saved.kind = "array"
    /\ \A i \in 1..Len(saved.arr) : saved.arr[i].tag = "object"

\* C7: when the read throws, or the stored text does not parse, or it parses
\* to something that is not an array of records, the history starts empty
\* and nothing is propagated.
C7_LoadFailureYieldsEmpty ==
    (/\ lastOp.op = "start"
     /\ ~lastOp.ok \/ ~IsArrayOfRecords(storage[RepoKey])) =>
        (repoHistory = <<>> /\ unhandled = {})

\* The tier of §4.1 for each of StageTexts, worked out by hand; 0 where the
\* message matches no bucket.
ExpectedTier == <<35, 35, 70, 98, 0, 35, 35, 70, 35>>

\* C8: the target after each message is the tier of that message alone,
\* first bucket winning, and the previous target where no bucket matches.
C8_TargetFollowsBuckets ==
    /\ Len(targetLog) <= Len(stageLog)
    /\ lsPhase = "mounted" =>
          /\ Len(targetLog) = Len(stageLog)
          /\ targetProgress = targetLog[Len(targetLog)]
    /\ \A i \in 1..Len(targetLog) :
          targetLog[i] =
             IF ExpectedTier[stageLog[i]] # 0 THEN ExpectedTier[stageLog[i]]
             ELSE IF i = 1 THEN 10
             ELSE targetLog[i - 1]

C8_Witness ==
    /\ Len(targetLog) = 4
    /\ targetLog[1] = 70
    /\ targetLog[2] = 35
    /\ stageLog[3] = 5
    /\ targetLog[3] = 35
    /\ targetLog[4] = 98

Scenario == <<1, 2, 3, 4>>

\* C9 as claimed: the scenario drives the targets 10, 35, 70, 98.
C9_ScenarioStartsAtBaseline ==
    (stageLog = Scenario /\ Len(targetLog) = 4) => targetLog = <<10, 35, 70, 98>>

\* C9 as amended: the scenario drives the targets 35, 35, 70, 98, since
\* "INITIALIZING" contains "init".
C9_ScenarioTargets ==
    (stageLog = Scenario /\ Len(targetLog) = 4) => targetLog = <<35, 35, 70, 98>>

C9_Witness ==
    /\ stageLog = Scenario
    /\ Len(targetLog) = 4
    /\ targetProgress = 98

TargetScaled == targetProgress * Resolution

\* |target - progress| < 0.5
Settled == Abs(TargetScaled - progress) + Abs(TargetScaled - progress) < Resolution

\* C10: with the target fixed, every tick that is not settled moves the
\* displayed value strictly closer to the target and never past it, a
\* settled value is left alone, and the value settles after finitely many
\* ticks.
C10_AnimatorConverges ==
    /\ [][/\ progress <= TargetScaled =>
                (progress <= progress' /\ progress' <= TargetScaled)
          /\ progress >= TargetScaled =>
                (progress >= progress' /\ progress' >= TargetScaled)
          /\ ~Settled => Abs(TargetScaled - progress') < Abs(TargetScaled - progress)
          /\ Settled => progress' = progress]_vars
    /\ <>[]Settled

C10_Witness ==
    /\ Settled
    /\ progress # TargetScaled
    /\ progress \notin StartValues

\* C11: under every interleaving of stage messages and animator ticks the
\* displayed progress is at least 0 and at most 100.
C11_ProgressWithinRange ==
    /\ 0 <= progress
    /\ progress <= 100 * Resolution

C11_Witness ==
    /\ targetProgress = 35
    /\ progress > 97 * Resolution
    /\ message = StageFetching

\* C12: the log window holds at most 5 entries, whatever log ticks,
\* samples, runs of the log effect and stage messages came before.
C12_WindowAtMostFive ==
    /\ 0 <= Len(logs)
    /\ Len(logs) <= 5

C12_Witness ==
    /\ Len(logs) = 5
    /\ logs[1] # InitLog
    /\ message = StageGenerating

Stamped(i) == logs[i].stamp # NoStamp

\* The window after entry e was appended to window w, oldest evicted.
AppendEvicting(w, e) ==
    IF Len(w) < 5 THEN Append(w, e) ELSE Append(Tail(w), e)

\* A step of the log tick that appended.
Appends == logs' # logs /\ logs' # <<InitLog>>

C13_EvictsOldest ==
    [][Appends =>
          /\ logs' = AppendEvicting(logs, logs'[Len(logs')])
          /\ logs'[Len(logs')].stamp = TimeOfDay(now')]_vars

\* The requests in flight whose instance is in the tree.
LiveRequests == {i \in 1..Len(requests) : requests[i].live}

\* C15: a tool instance has at most one request outstanding; while it has
\* one the submit control is disabled and no submit dispatches a second.
C15_SingleRequestInFlight ==
    /\ [](/\ Cardinality(LiveRequests) <= 1
          /\ loading <=> Cardinality(LiveRequests) = 1
          /\ loading => (SubmitDisabled /\ ~ENABLED SubmitClick))
    /\ [][Len(requests') > Len(requests) =>
             /\ LiveRequests = {}
             /\ Len(requests') = Len(requests) + 1]_vars

C15_Witness ==
    /\ loading
    /\ Trim(urlInput) # ""
    /\ Len(requests) = 2
    /\ Cardinality(LiveRequests) = 1
    /\ loadingStage = StageAnalyzing

\* A step in which the failure of the tool's request was handled.
FailureHandled == lastOp'.op = "reject" /\ lastOp'.ok

\* C16: once a failure of the service is handled the task has ended, the
\* error is the failure's message, no artifact and no citation is displayed,
\* history is as it was and the submit control no longer waits on loading,
\* whatever the user did while the request was in flight.
C16_FailureEndsTaskCleared ==
    [][FailureHandled =>
          /\ ~loading'
          /\ loadingStage' = <<>>
          /\ error' \in ServiceErrors
          /\ images' = <<>>
          /\ citations' = <<>>
          /\ articleHistory' = articleHistory
          /\ storage' = storage
          /\ SubmitDisabled' <=> Trim(urlInput') = ""]_vars

\* The part of C16 the code keeps: all of it but the empty result state.
C16_FailureEndsTask ==
    [][FailureHandled =>
          /\ ~loading'
          /\ loadingStage' = <<>>
          /\ error' \in ServiceErrors
          /\ articleHistory' = articleHistory
          /\ storage' = storage
          /\ SubmitDisabled' <=> Trim(urlInput') = ""]_vars

\* The url is missing, empty or white space alone.
BlankUrl == urlInput \in {"", " "}

\* C17: a submit with a blank url sets the inline error and nothing else:
\* no request is dispatched, loading and the timers stay as they were,
\* history and the displayed results are unchanged.
C17_BlankUrlOnlySetsError ==
    [][(lastOp'.op = "generate" /\ BlankUrl) =>
          /\ error' = ProvideUrl
          /\ requests' = requests
          /\ loading' = loading
          /\ ~loading => (~loading' /\ ~animTimer' /\ ~logTimer' /\ lsPhase' = "none")
          /\ UNCHANGED <<images, citations, urlInput, loadingStage>>
          /\ UNCHANGED <<articleHistory, repoHistory, storage, added>>
          /\ UNCHANGED lsVars]_vars

C17_Witness ==
    /\ lastOp = Op("generate", "none", FALSE)
    /\ error = ProvideUrl
    /\ urlInput = ""
    /\ ~loading
    /\ images # <<>>
    /\ Len(articleHistory) = 1

\* No task of the tool is running, or the tool is not displayed.
TaskOver == ~loading \/ ~ToolShown

\* C14: once the task has ended or its view is gone, both intervals are
\* cleared, no animator tick and no log tick can fire, and nothing writes
\* the progress or the log window.
C14_TimersTornDown ==
    /\ [](TaskOver =>
             /\ lsPhase = "none"
             /\ ~animTimer
             /\ ~logTimer
             /\ ~ENABLED AnimatorTick
             /\ ~ENABLED LogTick)
    /\ [][(TaskOver /\ TaskOver') => UNCHANGED <<progress, logs, now>>]_vars

C14_Witness ==
    /\ TaskOver
    /\ now > 0
    /\ lastOp.op = "tabClick"
    /\ currentView = REPO_ANALYZER
    /\ Len(requests) = 1

\* A step of the program that locks the gate again.
RelockRequest == Next /\ GateLocked'

\* C18: from Unlocked a collaborator can request a re-lock, which sets the
\* gate to Locked, and a Locked gate is left by the unlock interaction only.
C18_RelockOnRequest ==
    /\ [](GateUnlocked => ENABLED RelockRequest)
    /\ [][(GateLocked /\ ~GateLocked') => lastOp'.op = "keySelected"]_vars

\* The part of C18 the code keeps: a Locked gate is left by the unlock
\* interaction only.
C18_LockedUntilUnlock ==
    [][(GateLocked /\ ~GateLocked') => lastOp'.op = "keySelected"]_vars

\* checkKey has just run to its end without the bridge.
AfterAbsentProbe == probe = "absent" /\ lastOp.op = "mount"

\* The probe has just resolved false.
AfterProbeFalse == probe = "resolved" /\ lastOp.op = "probeResolve" /\ ~hasApiKey

\* C19: without the probe the gate leaves Checking for Locked, in the state
\* a probe that resolved false leaves: Home, the intro showing, the modal
\* up, nothing escaped.
C19_AbsentProbeAsFalse ==
    /\ probe = "absent" => ~GateChecking
    /\ (AfterAbsentProbe \/ AfterProbeFalse) =>
          /\ GateLocked
          /\ currentView = HOME
          /\ showIntro
          /\ repoHistory = <<>>
          /\ articleHistory = <<>>
          /\ unhandled = {}

C19_Witness ==
    /\ AfterAbsentProbe
    /\ GateLocked
    /\ ~bridge

\* C20: the gate starts in Checking, the probe is called once, at startup,
\* nothing returns the gate to Checking, and the gate changes by the probe
\* result, the unlock interaction or a re-lock request only.
C20_ProbeOnceAtStartup ==
    /\ [](probe = "idle" => GateChecking)
    /\ [][probe' # probe =>
             \/ probe = "idle" /\ probe' \in {"pending", "absent"} /\ lastOp'.op = "mount"
             \/ probe = "pending" /\ probe' \in {"resolved", "rejected"}]_vars
    /\ [][~GateChecking => ~GateChecking']_vars
    /\ [][(hasApiKey' # hasApiKey \/ checkingKey' # checkingKey) =>
             lastOp'.op \in {"mount", "probeResolve", "keySelected", "reauth"}]_vars

C20_Witness ==
    /\ probe = "resolved"
    /\ GateUnlocked
    /\ lastOp.op = "keydown"
    /\ lastKey.sets = 1
    /\ currentView = REPO_ANALYZER

\* A step in which a request completed with at least one artifact.
GenerationSucceeds == lastOp'.op = "resolve"

\* C21: every successful generation puts exactly one new entry, that of its
\* source, at the head of the article history and removes none, whether the
\* list already holds an entry of that source or not; no other step changes
\* the list.
C21_SuccessAddsOneEntry ==
    [][/\ GenerationSucceeds =>
             /\ Len(articleHistory') = Len(articleHistory) + 1
             /\ Tail(articleHistory') = articleHistory
             /\ \E i \in 1..Len(requests) :
                   /\ Head(articleHistory').url = requests[i].url
                   /\ requests' = Without(requests, i)
             /\ repoHistory' = repoHistory
       /\ ~GenerationSucceeds => articleHistory' = articleHistory]_vars

C21_Witness ==
    /\ lastOp.op = "resolve"
    /\ Len(articleHistory) = 2
    /\ articleHistory[1].url = "r1"
    /\ articleHistory[2].url = "r1"
    /\ Len(added[ArticleKey]) = 2

DistinctIds(list) ==
    \A i \in 1..Len(list), j \in 1..Len(list) : i # j => list[i].id # list[j].id

\* C22: in every reachable state the items of each history list carry
\* pairwise distinct identity tokens.
C22_IdentityTokensDistinct ==
    /\ DistinctIds(repoHistory)
    /\ DistinctIds(articleHistory)

\* A key-down step whose event matches a shortcut.
ShortcutKeyDown == lastOp'.op = "keydown" /\ IsShortcutEvent(lastKey')

\* C23: while the gate is not Unlocked or the intro is showing, a key-down
\* that matches a shortcut leaves the view as it was, sets nothing and does
\* not suppress the default.
C23_DisabledShortcutIgnored ==
    [][(ShortcutKeyDown /\ (~GateUnlocked \/ showIntro)) =>
          /\ currentView' = currentView
          /\ lastKey'.sets = 0
          /\ ~lastKey'.prevented]_vars

C23_Witness ==
    /\ lastOp.op = "keydown"
    /\ IsShortcutEvent(lastKey)
    /\ lastKey.key = "2"
    /\ ~lastKey.prevented
    /\ GateUnlocked
    /\ showIntro
    /\ currentView = HOME

\* C24: a key-down whose modifiers are not Alt alone, or whose key is not 1,
\* 2 or 3, leaves the view as it was, sets nothing and does not suppress the
\* default, also with the shortcuts enabled.
C24_OnlyAltDigitDispatches ==
    [][lastOp'.op = "keydown" =>
          /\ ~IsShortcutEvent(lastKey') =>
                /\ currentView' = currentView
                /\ lastKey'.sets = 0
                /\ ~lastKey'.prevented
          /\ (lastKey'.prevented \/ lastKey'.sets # 0 \/ currentView' # currentView) =>
                /\ lastKey'.alt
                /\ ~lastKey'.ctrl /\ ~lastKey'.meta /\ ~lastKey'.shift
                /\ lastKey'.key \in {"1", "2", "3"}]_vars

C24_Witness ==
    /\ lastOp.op = "keydown"
    /\ lastKey.alt
    /\ lastKey.shift
    /\ lastKey.key = "1"
    /\ ~lastKey.prevented
    /\ GateUnlocked
    /\ ~showIntro
    /\ currentView = REPO_ANALYZER

\* C25: while the gate is Checking nothing of the interface can be used: no
\* navigation control, no unlock interaction, no intro control and no
\* control of the tool is there to act on, a key-down is not handled, and
\* the view, the gate and the requests change by the probe alone.
C25_CheckingNonInteractive ==
    /\ [](GateChecking =>
             /\ ~ENABLED HeaderHomeClick
             /\ ~ENABLED TabClick
             /\ ~ENABLED handleNavigate
             /\ ~ENABLED KeySelected
             /\ ~ENABLED handleIntroComplete
             /\ ~ENABLED setUrlInput
             /\ ~ENABLED handleGenerate
             /\ ~ENABLED loadFromHistory)
    /\ [][GateChecking =>
             /\ currentView' = currentView
             /\ showIntro' = showIntro
             /\ requests' = requests
             /\ lastOp'.op = "keydown" => (lastKey'.sets = 0 /\ ~lastKey'.prevented)
             /\ hasApiKey' # hasApiKey => lastOp'.op \in {"mount", "probeResolve"}]_vars

C25_Witness ==
    /\ GateChecking
    /\ probe = "pending"
    /\ lastOp.op = "keydown"
    /\ IsShortcutEvent(lastKey)
    /\ lastKey.key = "3"
    /\ currentView = HOME

\* C26: when a task starts, before a stage message or a tick is processed,
\* the displayed value and the target are both 10.
C26_TaskStartsAtTen ==
    lsPhase = "rendered" =>
        /\ progress = 10 * Resolution
        /\ targetProgress = 10

\* A step in which LoadingState enters the tree.
TaskStarts == lsPhase = "none" /\ lsPhase' = "mounted"

\* The part of C26 the code keeps: a task starts from the initial values,
\* with the first stage processed, whatever the task before left.
C26_TaskStartsFresh ==
    [][TaskStarts =>
          /\ progress' = 0
          /\ targetProgress' = TargetAfter(FirstStage, 10)
          /\ logs' = <<InitLog>>]_vars

StoredUrls(k) == [i \in 1..Len(storage[k].arr) |-> storage[k].arr[i].url]

\* C27: an append to one category, its persist succeeding or failing,
\* changes the list and the stored value of that category alone; a load
\* writes nothing and gives each category the records of its own key,
\* whatever the other key holds.
C27_StoresIndependent ==
    [][/\ (lastOp'.op = "append" /\ lastOp'.cat = RepoKey) =>
             /\ Len(repoHistory') = Len(repoHistory) + 1
             /\ articleHistory' = articleHistory
             /\ storage'[ArticleKey] = storage[ArticleKey]
             /\ added'[ArticleKey] = added[ArticleKey]
             /\ ~lastOp'.ok => storage' = storage
       /\ (lastOp'.op = "append" /\ lastOp'.cat = ArticleKey) =>
             /\ Len(articleHistory') = Len(articleHistory) + 1
             /\ repoHistory' = repoHistory
             /\ storage'[RepoKey] = storage[RepoKey]
             /\ added'[RepoKey] = added[RepoKey]
             /\ ~lastOp'.ok => storage' = storage
       /\ lastOp'.op = "start" =>
             /\ storage' = storage
             /\ (lastOp'.ok /\ IsArrayOfRecords(storage[RepoKey])) =>
                   Urls(repoHistory') = StoredUrls(RepoKey)
             /\ (lastOp'.ok /\ IsArrayOfRecords(storage[ArticleKey])) =>
                   Urls(articleHistory') = StoredUrls(ArticleKey)]_vars

C27_Witness ==
    /\ lastOp = Op("append", RepoKey, FALSE)
    /\ Len(repoHistory) = 2
    /\ storage[RepoKey] = CorruptText
    /\ Len(articleHistory) = 1
    /\ storage[ArticleKey] = Stringify(articleHistory)

\* A tick that writes the displayed value.
WritingTick == AnimatorTick /\ progress' # progress

C28_OnlyTickWrites ==
    [][progress' # progress =>
          \/ lsPhase' # lsPhase
          \/ /\ UNCHANGED <<lsPhase, message, targetProgress, stageLog, targetLog,
                             logs, animTimer, logTimer, now>>
             /\ UNCHANGED <<appVars, toolVars>>]_vars

\* The samples for which the tick does nothing.
SkippedSamples == {r \in Samples : Skips(r)}

\* C29: while the log timer runs, the samples for which a tick does nothing
\* are about 70% of the sample range, between 60% and 80% of it, and the
\* others append.
C29_SkipsSeventyPercent ==
    logTimer =>
        /\ 6 * SampleSteps <= 10 * Cardinality(SkippedSamples)
        /\ 10 * Cardinality(SkippedSamples) <= 8 * SampleSteps

\* The part of C29 the code keeps: a tick that changes the window appends
\* exactly one line, of the pool, stamped with the time of the tick.
C29_AppendsOneStampedLine ==
    [][Appends =>
          /\ Len(logs') <= Len(logs) + 1
          /\ logs'[Len(logs')].text \in LogLines
          /\ logs'[Len(logs')].stamp = TimeOfDay(now')
          /\ SubSeq(logs', 1, Len(logs') - 1) \in {logs, Tail(logs)}]_vars

\* A step during a task: LoadingState is in the tree before and after.
DuringTask == lsPhase = "mounted" /\ lsPhase' = "mounted"

\* C30: during a task the log timer is neither cancelled nor set again and
\* the window changes by the appends of the log's own ticks alone, whatever
\* renders of LoadingState happen in between; a log tick changes the window
\* and nothing else of the program.
C30_LogStreamIndependent ==
    [][DuringTask =>
          /\ logTimer' = logTimer
          /\ logs' # logs =>
                /\ logs' = AppendEvicting(logs, logs'[Len(logs')])
                /\ logs'[Len(logs')].stamp # NoStamp
                /\ UNCHANGED <<lsPhase, message, targetProgress, progress, stageLog,
                               targetLog, animTimer>>
                /\ UNCHANGED <<appVars, toolVars>>]_vars

\* The part of C30 the code keeps: the step of a log tick that appends
\* changes the window and nothing else of the program.
C30_LogTickWritesWindowOnly ==
    [][(DuringTask /\ Appends) =>
          /\ UNCHANGED <<lsPhase, message, targetProgress, progress, stageLog,
                         targetLog, animTimer, logTimer>>
          /\ UNCHANGED <<appVars, toolVars>>]_vars

\* A step in which a request succeeded whose instance had left the tree:
\* it is marked so, or the displayed instance has no request of its own.
AbandonedSucceeds == lastOp'.op = "resolve" /\ (~lastOp'.ok \/ ~loading)

\* C31: when a request succeeds after its tool instance left the tree, its
\* item is put at the head of the article history and the list is written
\* to the article key, unless the write fails; the url field, the results,
\* the error and the loading display of whatever instance is shown stay as
\* they were.
C31_AbandonedSuccessKept ==
    [][AbandonedSucceeds =>
          /\ Len(articleHistory') = Len(articleHistory) + 1
          /\ Tail(articleHistory') = articleHistory
          /\ \E i \in 1..Len(requests) :
                /\ ~requests[i].live
                /\ Head(articleHistory').url = requests[i].url
          /\ \/ storage'[ArticleKey] = Stringify(articleHistory')
             \/ storage' = storage
          /\ storage'[RepoKey] = storage[RepoKey]
          /\ unhandled' = unhandled
          /\ UNCHANGED <<urlInput, loading, images, citations, error, loadingStage>>
          /\ UNCHANGED lsVars]_vars

C31_Witness ==
    /\ lastOp = Op("resolve", ArticleKey, FALSE)
    /\ currentView = REPO_ANALYZER
    /\ Len(articleHistory) = 1
    /\ articleHistory[1].url = "r2"
    /\ storage[ArticleKey] = Stringify(articleHistory)
    /\ images = <<>>
    /\ requests = <<>>

\* A step in which the request of the displayed instance resolved with no
\* artifact.
EmptyResultHandled == lastOp'.op = "resolveEmpty" /\ lastOp'.ok

\* C32: a response without artifacts is handled as a failure: the error is
\* set, no artifact and no citation is displayed, history and storage are as
\* they were, the task has ended and the submit control no longer waits on
\* loading.
C32_EmptyResultIsFailure ==
    [][EmptyResultHandled =>
          /\ error' = NoImage
          /\ images' = <<>>
          /\ citations' = <<>>
          /\ articleHistory' = articleHistory
          /\ storage' = storage
          /\ added' = added
          /\ ~loading'
          /\ loadingStage' = <<>>
          /\ lsPhase' = "none"
          /\ SubmitDisabled' <=> Trim(urlInput') = ""]_vars

\* The part of C32 the code keeps: all of it, with the displayed results
\* left as they were in place of empty.
C32_EmptyResultEndsTask ==
    [][EmptyResultHandled =>
          /\ error' = NoImage
          /\ images' = images
          /\ citations' = citations
          /\ articleHistory' = articleHistory
          /\ storage' = storage
          /\ added' = added
          /\ ~loading'
          /\ loadingStage' = <<>>
          /\ lsPhase' = "none"
          /\ SubmitDisabled' <=> Trim(urlInput') = ""]_vars

\* C33: a request carries the url of the field as it stood at the submit,
\* and the item of a successful request records the url its request
\* carries, whatever the field holds when the request completes.
C33_ItemKeepsSubmittedUrl ==
    [][/\ Len(requests') > Len(requests) =>
             /\ requests'[Len(requests')].url = urlInput
             /\ SubSeq(requests', 1, Len(requests)) = requests
       /\ Len(requests') = Len(requests) => requests' = requests
       /\ GenerationSucceeds =>
             \E i \in 1..Len(requests) :
                /\ requests' = Without(requests, i)
                /\ Head(articleHistory').url = requests[i].url]_vars

C33_Witness ==
    /\ lastOp.op = "resolve"
    /\ Len(articleHistory) = 2
    /\ articleHistory[1].url = "r2"
    /\ articleHistory[2].url = "r1"
    /\ urlInput = "r1"
    /\ images = Artifacts("r2")

\* C34: the effects of the first render leave under each key a value
\* equivalent to the one the list was loaded from: the value itself, or,
\* when the load of the old value did not throw, a text that loads to the
\* same list. A value whose load threw is still there.
C34_StartupKeepsStored ==
    [][lastOp'.op = "mount" =>
          \A k \in StorageKeys :
             \/ storage'[k] = storage[k]
             \/ /\ ~LoadThrows(storage[k])
                /\ Load(storage'[k], TRUE) = Load(storage[k], TRUE)]_vars

====
